---------------------------- MODULE Spec2Model ----------------------------
(***************************************************************************)
(* Model of the cumulative elasticity curve of                             *)
(* causal-inference-for-the-brave-and-true/                                *)
(* Prediction-Metrics-For-Causal-Models.ipynb: elast (lines 183-186),      *)
(* cumulative_gain (lines 189-193) and the caller's use of both (lines     *)
(* 224-225, 250).                                                          *)
(*                                                                         *)
(* A dataset is a sequence of rows [s, t, y]: s is the column named by the *)
(* argument prediction, t the treatment column, y the outcome column.      *)
(* A float64 is modelled by the rational it holds or rounds, a record      *)
(* [num, den, exact, err, sgn], num/den in lowest terms: den = 0 encodes   *)
(* nan (0/0) and +inf, -inf (1/0, -1/0), the results numpy gives for a     *)
(* division by zero.  exact = TRUE says the float64 is that rational;      *)
(* exact = FALSE says an operation has rounded, and the float64 lies       *)
(* within 2^err of the rational, last bits not computed.  sgn is the sign  *)
(* bit where it is sure (0.0 and -0.0 differ in it).  Where a result turns *)
(* on bits the model does not compute, the value is Unknown.               *)
(***************************************************************************)
EXTENDS Integers, Sequences, FiniteSets, TLC

VARIABLES
    dataset,      \* the caller's DataFrame (test_pred), a sequence of rows
    tiePref,      \* the order this build's sort leaves tied scores in
    pc,           \* position of the caller / of the running cumulative_gain
    min_periods,  \* argument of the running call
    steps,        \* argument of the running call
    size,         \* local of cumulative_gain (line 190)
    ordered_df,   \* local of cumulative_gain (line 191)
    n_rows,       \* local of cumulative_gain (line 192)
    out,          \* the list the comprehension of line 193 is building
    pos,          \* number of elements of n_rows the comprehension has consumed
    result,       \* the array the last call returned
    err,          \* the exception the last call raised, "none" if none
    calls,        \* number of calls of cumulative_gain begun
    prev,         \* outcome of the call before the current one
    baseline      \* << elast(dataset) >> once line 250 has run, else << >>

vars == << dataset, tiePref, pc, min_periods, steps, size, ordered_df,
           n_rows, out, pos, result, err, calls, prev, baseline >>

----------------------------------------------------------------------------
(* Bounds of the model *)

MaxRows == 3

MaxCalls == 2

(* Defaults of cumulative_gain's signature *)

DefaultMinPeriods == 30

DefaultSteps == 100

(* The number of rows of the notebook's test set (line 100). *)
NotebookTestRows == 50000

(* The rows of the small datasets: scores that tie and scores that differ,
   treatments that are constant on some slices and vary on others, outcomes
   that rise, fall or stay with the treatment. *)
Row ==
    { [s |-> 1, t |-> 0, y |-> 0],
      [s |-> 1, t |-> 1, y |-> 1],
      [s |-> 0, t |-> 1, y |-> 0],
      [s |-> 0, t |-> 0, y |-> 1] }

(* The arguments the caller passes: explicit ones, or the defaults. *)
MinPeriodsArgs == -1 .. 3

StepsArgs == -1 .. 4

Args == (MinPeriodsArgs \X StepsArgs) \cup {<< DefaultMinPeriods, DefaultSteps >>}

(* The 10 rows t = 1..10, y = 2*t, with a score that has ties. *)
LinearRows == [i \in 1 .. 10 |-> [s |-> (3 * i) % 4, t |-> i, y |-> 2 * i]]

(* 4 rows whose scores all differ, not given in score order. *)
DistinctScoreRows ==
    << [s |-> 2, t |-> 2, y |-> 1],
       [s |-> 5, t |-> 1, y |-> 3],
       [s |-> 1, t |-> 0, y |-> 2],
       [s |-> 4, t |-> 0, y |-> 0] >>

(* 3 rows on the line y = 3*t whose means, 1/3 and 1, are not both binary
   fractions. *)
ThirdsRows ==
    << [s |-> 1, t |-> 0, y |-> 0],
       [s |-> 0, t |-> 0, y |-> 0],
       [s |-> 2, t |-> 1, y |-> 3] >>

SmallDatasets == UNION {[1 .. n -> Row] : n \in 0 .. MaxRows}

Datasets == SmallDatasets \cup {LinearRows, DistinctScoreRows, ThirdsRows}

Identity(n) == [i \in 1 .. n |-> i]

Reversed(n) == [i \in 1 .. n |-> n + 1 - i]

(* The ranks a sort may give the rows of df: any order that puts no row
   before a row of higher score.  Equal scores may end in any order. *)
SortedRanks(df) ==
    {p \in [1 .. Len(df) -> 1 .. Len(df)] :
        /\ \A i, j \in 1 .. Len(df) : p[i] = p[j] => i = j
        /\ \A i, j \in 1 .. Len(df) : df[i].s > df[j].s => p[i] < p[j]}

(* The order this build leaves ties in, as a rank per row: every order for
   the small datasets; for the 10 rows, ties in input order (a stable sort)
   or in reverse input order. *)
StableRanks(df, ranks) ==
    [i \in 1 .. Len(df) |->
        Cardinality({j \in 1 .. Len(df) :
            \/ df[j].s > df[i].s
            \/ df[j].s = df[i].s /\ ranks[j] <= ranks[i]})]

TieOrders(df) ==
    IF Len(df) <= MaxRows THEN SortedRanks(df)
    ELSE {StableRanks(df, Identity(Len(df))), StableRanks(df, Reversed(Len(df)))}

----------------------------------------------------------------------------
(* float64.  A value is a record [num, den, exact, err, sgn]:
     nan            num = 0, den = 0, exact
     +inf, -inf     num = 1, -1, den = 0, exact, sgn = num
     a float64 r    num/den = r in lowest terms, exact, sgn the sign bit
                    (for 0.0 and -0.0: 1 and -1, and 0 where the sign of the
                    zero depends on the build)
     a rounding     num/den in lowest terms, not exact: an operation on the
                    way had a result no float64 holds, and the code holds a
                    finite float64 within 2^err of num/den; sgn is the sign
                    of that float64 where 2^err < |num/den| makes it sure
                    (then it is not zero), else 0
     Unknown        num = 0, den = 0, not exact: the result turns on the
                    sign or the size of a rounding that the bound does not
                    settle; the code holds some float64, nan and inf included.
   An operation is exact when its operands are and its result is a binary
   fraction; all integers here are far below 2^53.  The bound err is kept
   as an exponent and only grows: each operation adds the errors of its
   operands and half a unit in the last place of its own result. *)

Abs(a) == IF a < 0 THEN -a ELSE a

Sign(a) == IF a < 0 THEN -1 ELSE IF a > 0 THEN 1 ELSE 0

Max(a, b) == IF a >= b THEN a ELSE b

RECURSIVE Gcd(_, _)
Gcd(a, b) == IF b = 0 THEN a ELSE Gcd(b, a % b)

RECURSIVE IsPow2(_)
IsPow2(d) == d = 1 \/ (d > 1 /\ d % 2 = 0 /\ IsPow2(d \div 2))

(* num/den in lowest terms is a float64: nan, +-inf or a binary fraction. *)
Representable(d) == d = 0 \/ IsPow2(d)

(* A float64 carries 53 significant bits. *)
MantissaBits == 53

(* The err of an exact value: 2^-1100 is below the spacing of any two
   float64, so the bound says the float64 is the rational. *)
ExactErr == -1100

(* Floor and ceiling of the binary logarithm of an integer q >= 1. *)
RECURSIVE FloorLog2(_)
FloorLog2(q) == IF q <= 1 THEN 0 ELSE FloorLog2(q \div 2) + 1

CeilLog2(q) == IF q <= 1 THEN 0 ELSE FloorLog2(q - 1) + 1

(* The greatest l with 2^l <= |n/d| and the least L with |n/d| <= 2^L,
   for n # 0 and d > 0. *)
Log2Floor(n, d) ==
    IF Abs(n) >= d THEN FloorLog2(Abs(n) \div d)
    ELSE -CeilLog2((d + Abs(n) - 1) \div Abs(n))

Log2Ceil(n, d) ==
    IF Abs(n) >= d THEN CeilLog2((Abs(n) + d - 1) \div d)
    ELSE -FloorLog2(d \div Abs(n))

NaN == [num |-> 0, den |-> 0, exact |-> TRUE, err |-> ExactErr, sgn |-> 0]

Unknown == [num |-> 0, den |-> 0, exact |-> FALSE, err |-> ExactErr, sgn |-> 0]

Inf(s) == [num |-> s, den |-> 0, exact |-> TRUE, err |-> ExactErr, sgn |-> s]

(* 0.0 (s = 1), -0.0 (s = -1), or a zero whose sign the build decides. *)
Zero(s) == [num |-> 0, den |-> 1, exact |-> TRUE, err |-> ExactErr, sgn |-> s]

Float(i) ==
    [num |-> i, den |-> 1, exact |-> TRUE, err |-> ExactErr,
     sgn |-> IF i < 0 THEN -1 ELSE 1]

IsNaN(a) == a.den = 0 /\ a.num = 0 /\ a.exact

IsUnknown(a) == a.den = 0 /\ a.num = 0 /\ ~a.exact

IsInf(a) == a.den = 0 /\ a.num # 0

IsZero(a) == a.num = 0 /\ a.den # 0 /\ a.exact

(* A finite float64 that is surely not zero, of sure sign: an exact one, or
   a rounding whose bound is below the rational (then the float64 is at
   least half the rational away from 0). *)
Nonzero(a) == a.den # 0 /\ a.num # 0 /\ a.sgn # 0

(* An exponent L with |num/den| <= 2^L. *)
LogC(a) == IF a.num = 0 THEN ExactErr ELSE Log2Ceil(a.num, a.den)

(* The float64 of an operation whose real result on the rationals of its
   operands is n/d, d # 0, when the operands are exact (ex) or are within
   2^E of their rationals in their effect on the result. *)
Rounded(n, d, ex, E) ==
    LET g == Gcd(Abs(n), Abs(d))
        num == Sign(d) * (n \div g)
        den == Abs(d) \div g
        mag == IF num = 0 THEN E ELSE Max(Log2Ceil(num, den), E) + 1
        e == Max(E, mag - MantissaBits) + 1
    IN  IF ex /\ Representable(den)
        THEN [num |-> num, den |-> den, exact |-> TRUE, err |-> ExactErr,
              sgn |-> IF num < 0 THEN -1 ELSE 1]
        ELSE [num |-> num, den |-> den, exact |-> FALSE, err |-> e,
              sgn |-> IF num # 0 /\ e < Log2Floor(num, den)
                      THEN Sign(num) ELSE 0]

FNeg(a) ==
    [num |-> -a.num, den |-> a.den, exact |-> a.exact, err |-> a.err,
     sgn |-> -a.sgn]

(* nan + x = nan, inf + inf = inf, inf + -inf = nan, inf + x = inf;
   -0.0 + -0.0 = -0.0 and every other sum of zeros, and x + -x, is 0.0;
   0.0 + x = x. *)
FAdd(a, b) ==
    IF IsNaN(a) \/ IsNaN(b) THEN NaN
    ELSE IF IsUnknown(a) \/ IsUnknown(b) THEN Unknown
    ELSE IF IsInf(a) /\ IsInf(b) THEN (IF a.num = b.num THEN a ELSE NaN)
    ELSE IF IsInf(a) THEN a
    ELSE IF IsInf(b) THEN b
    ELSE IF IsZero(a) /\ IsZero(b)
    THEN Zero(IF a.sgn = b.sgn THEN a.sgn
              ELSE IF a.sgn = 1 \/ b.sgn = 1 THEN 1 ELSE 0)
    ELSE IF IsZero(a) THEN b
    ELSE IF IsZero(b) THEN a
    ELSE IF a.exact /\ b.exact /\ a.num * b.den + b.num * a.den = 0
    THEN Zero(1)
    ELSE Rounded(a.num * b.den + b.num * a.den, a.den * b.den,
                 a.exact /\ b.exact, Max(a.err, b.err) + 1)

FSub(a, b) == FAdd(a, FNeg(b))

(* 1.0 and -1.0 as an operand: x * 1.0 = x / 1.0 = x to the last bit. *)
IsUnit(a) == a.exact /\ a.den = 1 /\ Abs(a.num) = 1

(* nan * x = nan, inf * 0.0 = nan, inf * x = +-inf by the signs, and
   0.0 * x = +-0.0 by the signs for a finite x. *)
FMul(a, b) ==
    IF IsNaN(a) \/ IsNaN(b) THEN NaN
    ELSE IF IsUnknown(a) \/ IsUnknown(b) THEN Unknown
    ELSE IF IsInf(a) \/ IsInf(b)
    THEN (IF IsZero(a) \/ IsZero(b) THEN NaN
          ELSE IF (IsInf(a) \/ Nonzero(a)) /\ (IsInf(b) \/ Nonzero(b))
          THEN Inf(a.sgn * b.sgn)
          ELSE Unknown)
    ELSE IF IsZero(a) \/ IsZero(b) THEN Zero(a.sgn * b.sgn)
    ELSE IF IsUnit(b) THEN (IF b.num = 1 THEN a ELSE FNeg(a))
    ELSE IF IsUnit(a) THEN (IF a.num = 1 THEN b ELSE FNeg(b))
    ELSE Rounded(a.num * b.num, a.den * b.den, a.exact /\ b.exact,
                 Max(Max(LogC(a) + b.err, LogC(b) + a.err), a.err + b.err) + 2)

(* nan / x = x / nan = nan, inf / inf = 0.0 / 0.0 = nan, x / 0.0 = +-inf
   and x / inf = +-0.0 by the signs (numpy warns and goes on). *)
FDiv(a, b) ==
    IF IsNaN(a) \/ IsNaN(b) THEN NaN
    ELSE IF IsUnknown(a) \/ IsUnknown(b) THEN Unknown
    ELSE IF IsInf(a)
    THEN (IF IsInf(b) THEN NaN
          ELSE IF b.sgn # 0 THEN Inf(a.sgn * b.sgn)
          ELSE Unknown)
    ELSE IF IsInf(b) THEN Zero(a.sgn * b.sgn)
    ELSE IF IsZero(b)
    THEN (IF IsZero(a) THEN NaN
          ELSE IF Nonzero(a) /\ b.sgn # 0 THEN Inf(a.sgn * b.sgn)
          ELSE Unknown)
    ELSE IF ~Nonzero(b) THEN Unknown
    ELSE IF IsZero(a) THEN Zero(a.sgn * b.sgn)
    ELSE IF IsUnit(b) THEN (IF b.num = 1 THEN a ELSE FNeg(a))
    ELSE LET lb == Log2Floor(b.num, b.den)
         IN  Rounded(a.num * b.den, a.den * b.num, a.exact /\ b.exact,
                     Max(a.err - lb, LogC(a) + b.err - 2 * lb) + 2)

(* The float64 quotient of the integers n and d. *)
Norm(n, d) == FDiv(Float(n), Float(d))

----------------
(* Python and pandas helpers *)

Min(a, b) == IF a < b THEN a ELSE b

(* a // b for b # 0: the floor of the quotient. *)
PyFloorDiv(a, b) ==
    LET n == IF b < 0 THEN -a ELSE a
        d == Abs(b)
    IN  IF n >= 0 THEN n \div d ELSE -((-n + d - 1) \div d)

(* list(range(start, stop, step)) for step # 0. *)
RECURSIVE PyRange(_, _, _)
PyRange(start, stop, step) ==
    IF (step > 0 /\ start < stop) \/ (step < 0 /\ start > stop)
    THEN << start >> \o PyRange(start + step, stop, step)
    ELSE << >>

(* A build that slices by label, df.loc[:n], which takes the row labelled n
   as well. *)
DfHeadThroughLabel(df, n) ==
    IF n >= 0 THEN SubSeq(df, 1, Min(n + 1, Len(df)))
    ELSE SubSeq(df, 1, Max(Len(df) + n, 0))

(* df.head(n) = df.iloc[:n] *)
DfHead(df, n) ==
    IF n >= 0 THEN SubSeq(df, 1, Min(n, Len(df)))
    ELSE SubSeq(df, 1, Max(Len(df) + n, 0))

(* np.sum(series) is Series.sum(skipna=True): pandas puts 0.0 in the place
   of every nan and numpy adds the values from the first element on (from 8
   elements on numpy adds in pairs, which changes only which rounding an
   inexact sum holds).  The empty sum is 0.0; a sum of -0.0 only is a zero
   whose sign depends on the build. *)
SkipNa(x) == IF IsNaN(x) THEN Float(0) ELSE x

RECURSIVE AddAll(_)
AddAll(xs) ==
    IF xs = << >> THEN Zero(0)
    ELSE FAdd(AddAll(SubSeq(xs, 1, Len(xs) - 1)), SkipNa(xs[Len(xs)]))

NpSum(xs) == IF xs = << >> THEN Float(0) ELSE AddAll(xs)

(* Series.mean() leaves nan out of the sum and of the count: sum / count,
   nan for a Series that is empty or holds nan only. *)
NotNaCount(xs) == Cardinality({i \in 1 .. Len(xs) : ~IsNaN(xs[i])})

Mean(xs) ==
    IF \E i \in 1 .. Len(xs) : IsUnknown(xs[i]) THEN Unknown
    ELSE FDiv(NpSum(xs), Float(NotNaCount(xs)))

(* A build of elast that does not centre the treatment in the denominator. *)
elastUncentredDenominator(data) ==
    LET ts == [i \in 1 .. Len(data) |-> Float(data[i].t)]
        ys == [i \in 1 .. Len(data) |-> Float(data[i].y)]
        mt == Mean(ts)
        my == Mean(ys)
    IN  FDiv(NpSum([i \in 1 .. Len(data) |-> FMul(FSub(ts[i], mt), FSub(ys[i], my))]),
             NpSum([i \in 1 .. Len(data) |-> FMul(ts[i], ts[i])]))

TCol(data) == [i \in 1 .. Len(data) |-> Float(data[i].t)]

YCol(data) == [i \in 1 .. Len(data) |-> Float(data[i].y)]

Centered(xs) == LET m == Mean(xs) IN [i \in 1 .. Len(xs) |-> FSub(xs[i], m)]

elast(data) ==
    LET dt == Centered(TCol(data))
        dy == Centered(YCol(data))
    IN  FDiv(NpSum([i \in 1 .. Len(data) |-> FMul(dt[i], dy[i])]),
             NpSum([i \in 1 .. Len(data) |-> FMul(dt[i], dt[i])]))

----------------------------------------------------------------------------
(* dataset.sort_values(prediction, ascending=False).reset_index(drop=True) *)

(* A build that sorts ascending. *)
BeforeAscending(df, pref, i, j) ==
    \/ df[i].s < df[j].s
    \/ df[i].s = df[j].s /\ pref[i] < pref[j]

(* Row i goes before row j: higher score first, ties as the build leaves them. *)
Before(df, pref, i, j) ==
    \/ df[i].s > df[j].s
    \/ df[i].s = df[j].s /\ pref[i] < pref[j]

RECURSIVE InsertIdx(_, _, _, _)
InsertIdx(df, pref, idx, i) ==
    IF idx = << >> THEN << i >>
    ELSE IF Before(df, pref, i, idx[1]) THEN << i >> \o idx
    ELSE << idx[1] >> \o InsertIdx(df, pref, Tail(idx), i)

RECURSIVE Argsort(_, _, _)
Argsort(df, pref, n) ==
    IF n = 0 THEN << >> ELSE InsertIdx(df, pref, Argsort(df, pref, n - 1), n)

(* A build that drops the sorted frame and goes on with the input order. *)
SortValuesDiscarded(df, pref) == [self |-> df, ret |-> df]

(* A build that sorts the caller's frame in place. *)
SortValuesInPlace(df, pref) ==
    LET idx == Argsort(df, pref, Len(df))
        sorted == [j \in 1 .. Len(df) |-> df[idx[j]]]
    IN  [self |-> sorted, ret |-> sorted]

(* self: the receiver after the call; ret: the frame returned, renumbered
   0..n-1 by reset_index(drop=True) (a sequence has no other index). *)
SortValues(df, pref) ==
    LET idx == Argsort(df, pref, Len(df))
    IN  [self |-> df, ret |-> [k \in 1 .. Len(df) |-> df[idx[k]]]]

----------------------------------------------------------------------------
(* The state machine *)

NoOutcome == [pc |-> "none", result |-> << >>, err |-> "none"]

Init ==
    /\ dataset \in Datasets
    /\ tiePref \in TieOrders(dataset)
    /\ pc = "idle"
    /\ min_periods = DefaultMinPeriods
    /\ steps = DefaultSteps
    /\ size = 0
    /\ ordered_df = << >>
    /\ n_rows = << >>
    /\ out = << >>
    /\ pos = 0
    /\ result = << >>
    /\ err = "none"
    /\ calls = 0
    /\ prev = NoOutcome
    /\ baseline = << >>

Finished == pc \in {"returned", "raised"}

(* Entering cumulative_gain: a fresh frame, and line 190. *)
Enter(mp, st) ==
    /\ min_periods' = mp
    /\ steps' = st
    /\ size' = Len(dataset)
    /\ ordered_df' = << >>
    /\ n_rows' = << >>
    /\ result' = << >>
    /\ err' = "none"
    /\ calls' = calls + 1
    /\ pc' = "sort"
    /\ UNCHANGED << dataset, tiePref, out, pos, baseline >>

(* The first call, lines 224-225. *)
Call(mp, st) ==
    /\ pc = "idle"
    /\ calls < MaxCalls
    /\ prev' = prev
    /\ Enter(mp, st)

(* The same call made again on the same dataset. *)
CallAgain ==
    /\ Finished
    /\ calls < MaxCalls
    /\ prev' = [pc |-> pc, result |-> result, err |-> err]
    /\ Enter(min_periods, steps)

(* Line 191. *)
Sort ==
    /\ pc = "sort"
    /\ dataset' = SortValues(dataset, tiePref).self
    /\ ordered_df' = SortValues(dataset, tiePref).ret
    /\ pc' = "n_rows"
    /\ UNCHANGED << tiePref, min_periods, steps, size, n_rows, out, pos, result,
                    err, calls, prev, baseline >>

Raise(e) ==
    /\ err' = e
    /\ pc' = "raised"
    /\ UNCHANGED << dataset, tiePref, min_periods, steps, size, ordered_df,
                    n_rows, out, pos, result, calls, prev, baseline >>

(* Line 192, size // steps with steps = 0. *)
RaiseZeroDivision ==
    /\ pc = "n_rows"
    /\ steps = 0
    /\ Raise("ZeroDivisionError")

(* Line 192, range() with a step of 0. *)
RaiseValueError ==
    /\ pc = "n_rows"
    /\ steps # 0
    /\ PyFloorDiv(size, steps) = 0
    /\ Raise("ValueError")

(* A build that appends to the list the call before left behind. *)
StaleList == out

(* The list a list comprehension starts from. *)
EmptyList == << >>

(* A build of line 192 that steps by steps instead of size // steps. *)
NRowsStrideIsSteps(mp, sz, st) == PyRange(mp, sz, st) \o << sz >>

(* A build of line 192 that takes min_periods before testing it against
   size. *)
NRowsFirstUntested(mp, sz, st) ==
    << mp >> \o PyRange(mp + PyFloorDiv(sz, st), sz, PyFloorDiv(sz, st)) \o << sz >>

(* A build of line 192 whose range stops after size instead of before it. *)
NRowsInclusive(mp, sz, st) ==
    PyRange(mp, sz + 1, PyFloorDiv(sz, st)) \o << sz >>

(* A build of line 192 that leaves out the final [size]. *)
NRowsNoFinal(mp, sz, st) == PyRange(mp, sz, PyFloorDiv(sz, st))

(* list(range(min_periods, size, size // steps)) + [size] *)
NRows(mp, sz, st) == PyRange(mp, sz, PyFloorDiv(sz, st)) \o << sz >>

(* Line 192, and the start of the comprehension of line 193. *)
BuildNRows ==
    /\ pc = "n_rows"
    /\ steps # 0
    /\ PyFloorDiv(size, steps) # 0
    /\ n_rows' = NRows(min_periods, size, steps)
    /\ out' = EmptyList
    /\ pos' = 0
    /\ pc' = "eval"
    /\ UNCHANGED << dataset, tiePref, min_periods, steps, size, ordered_df,
                    result, err, calls, prev, baseline >>

(* A build of line 193 that leaves out the factor rows / size. *)
PointUnscaled(df, rows, sz) == elast(DfHead(df, rows))

(* One element of the comprehension of line 193.  sz # 0 here: with
   size = 0 line 192 has raised. *)
Point(df, rows, sz) == FMul(elast(DfHead(df, rows)), FDiv(Float(rows), Float(sz)))

EvalPrefix ==
    /\ pc = "eval"
    /\ pos < Len(n_rows)
    /\ out' = Append(out, Point(ordered_df, n_rows[pos + 1], size))
    /\ pos' = pos + 1
    /\ UNCHANGED << dataset, tiePref, pc, min_periods, steps, size, ordered_df,
                    n_rows, result, err, calls, prev, baseline >>

(* np.array(...) and return. *)
Return ==
    /\ pc = "eval"
    /\ pos = Len(n_rows)
    /\ result' = out
    /\ pc' = "returned"
    /\ UNCHANGED << dataset, tiePref, min_periods, steps, size, ordered_df,
                    n_rows, out, pos, err, calls, prev, baseline >>

(* Line 250: elast on the whole dataset, for the random-model baseline. *)
Baseline ==
    /\ pc \in {"idle", "returned", "raised"}
    /\ baseline' = << elast(dataset) >>
    /\ pc' = "plotted"
    /\ UNCHANGED << dataset, tiePref, min_periods, steps, size, ordered_df,
                    n_rows, out, pos, result, err, calls, prev >>

Next ==
    \/ \E a \in Args : Call(a[1], a[2])
    \/ CallAgain
    \/ Sort
    \/ RaiseZeroDivision
    \/ RaiseValueError
    \/ BuildNRows
    \/ EvalPrefix
    \/ Return
    \/ Baseline

Spec == Init /\ [][Next]_vars

----------------------------------------------------------------------------
(* Properties *)

(* The call has built n_rows (line 192 did not raise). *)
Built == pc \in {"eval", "returned"}

(* min_periods, min_periods + stride, ... : the values strictly below sz,
   then sz, for a stride >= 1. *)
RulePrefixLengths(mp, sz, stride) ==
    LET n == Cardinality({j \in 0 .. Max(sz - mp, 0) : mp + j * stride < sz})
    IN  [i \in 1 .. n + 1 |-> IF i <= n THEN mp + (i - 1) * stride ELSE sz]

(* C1: with stride = size // steps >= 1, the prefix lengths cumulative_gain
   evaluates are min_periods, min_periods + stride, ... (every such value
   strictly below size) followed by size; min_periods = 3, steps = 2,
   size = 10 gives [3, 8, 10]. *)
C1_PrefixLengths ==
    (Built /\ steps >= 1) =>
        /\ n_rows = RulePrefixLengths(min_periods, size, size \div steps)
        /\ (size = 10 /\ min_periods = 3 /\ steps = 2) => n_rows = << 3, 8, 10 >>
        /\ pc = "returned" => Len(result) = Len(n_rows)

C1_Witness ==
    /\ pc = "returned"
    /\ size = 10 /\ min_periods = 3 /\ steps = 2
    /\ n_rows = << 3, 8, 10 >>

(* The first rows of df, all of them when df has fewer than n. *)
FirstRows(df, n) == [j \in 1 .. Min(n, Len(df)) |-> df[j]]

(* C2: the returned sequence has the length and order of the prefix-length
   sequence, and its i-th value is elast(first k_i rows of the sorted
   dataset) times k_i / size, for every prefix length k_i >= 0; the same
   holds of the part of the sequence built so far. *)
C2_CurveValues ==
    Built =>
        /\ Len(out) = pos /\ pos <= Len(n_rows)
        /\ pc = "returned" => (result = out /\ Len(result) = Len(n_rows))
        /\ \A i \in 1 .. Len(out) :
              n_rows[i] >= 0 =>
                  out[i] = FMul(elast(FirstRows(ordered_df, n_rows[i])),
                                Norm(n_rows[i], size))

C2_Witness ==
    /\ pc = "returned"
    /\ Len(result) >= 3
    /\ \A i \in 1 .. Len(result) : n_rows[i] >= 1 /\ n_rows[i] <= size
    /\ \E i, j \in 1 .. Len(result) :
          /\ i < j
          /\ ~IsNaN(result[i]) /\ ~IsNaN(result[j])
          /\ result[i] # result[j]

(* Two values are the same number: the same float64 where exact (0.0 and
   -0.0 are equal numbers), roundings of the same ratio where not. *)
SameNumber(a, b) == a.num = b.num /\ a.den = b.den /\ a.exact = b.exact

(* C3: the last value of a returned curve is elast of the whole sorted
   dataset, at coverage 1.0, and the same number as elast of the dataset as
   passed, whatever the scores, the order of ties, min_periods and steps. *)
C3_LastIsFullDataset ==
    pc = "returned" =>
        /\ Len(result) >= 1
        /\ result[Len(result)] = elast(ordered_df)
        /\ SameNumber(result[Len(result)], elast(dataset))

C3_Witness ==
    /\ pc = "returned"
    /\ Len(result) >= 2
    /\ ~IsNaN(result[Len(result)])
    /\ result[Len(result)] = elast(dataset)
    /\ \E i, j \in 1 .. Len(dataset) : i < j /\ dataset[i].s < dataset[j].s

(* Sums over the rows of a dataset, in integers. *)
RECURSIVE IntSum(_)
IntSum(xs) == IF xs = << >> THEN 0 ELSE xs[1] + IntSum(Tail(xs))

SumT(data) == IntSum([i \in 1 .. Len(data) |-> data[i].t])

SumY(data) == IntSum([i \in 1 .. Len(data) |-> data[i].y])

SumTY(data) == IntSum([i \in 1 .. Len(data) |-> data[i].t * data[i].y])

SumTT(data) == IntSum([i \in 1 .. Len(data) |-> data[i].t * data[i].t])

(* sum((t - mean t) * (y - mean y)) and sum((t - mean t)^2), both times the
   number of rows. *)
CovTimesN2(data) == Len(data) * SumTY(data) - SumT(data) * SumY(data)

VarTimesN2(data) == Len(data) * SumTT(data) - SumT(data) * SumT(data)

ConstantTreatment(data) == \A i, j \in 1 .. Len(data) : data[i].t = data[j].t

Slopes == -3 .. 3

(* Slopes that are no power of two. *)
SteepSlopes == {-3, 3}

(* The rows of data lie on y = a*t + b and t is not constant. *)
OnLine(data, a, b) ==
    /\ ~ConstantTreatment(data)
    /\ \A i \in 1 .. Len(data) : data[i].y = a * data[i].t + b

(* x is n/d, held exactly or rounded. *)
RoundingOf(x, n, d) == x.num = Norm(n, d).num /\ x.den = Norm(n, d).den

(* mean(t) and mean(y) are binary fractions: centring, the products and
   the sums of integer data then round nothing. *)
DyadicMeans(data) ==
    /\ Len(data) >= 1
    /\ Norm(SumT(data), Len(data)).exact
    /\ Norm(SumY(data), Len(data)).exact

(* C4, as stated, on lines of slope 3 and -3: for noiseless linear data
   y = a*t + b with non-constant t, elast returns exactly a. *)
C4_ElastExactlySlope ==
    baseline # << >> =>
        \A a \in SteepSlopes, b \in Slopes :
            OnLine(dataset, a, b) => baseline[1] = Float(a)

(* C4, amended: elast returns the float64 evaluation of
   sum((t - mean t)(y - mean y)) / sum((t - mean t)^2) with the population
   means of the slice: that ratio or a rounding of it, and exactly the
   float64 quotient of the two sums when the means are binary fractions.
   On y = a*t + b with t not constant it returns a or a rounding of a, and
   exactly a when the means are binary fractions; it returns exactly 2 on
   the 10 rows t = 1..10, y = 2*t. *)
C4_ElastIsCovOverVar ==
    baseline # << >> =>
        /\ RoundingOf(baseline[1], CovTimesN2(dataset), VarTimesN2(dataset))
        /\ DyadicMeans(dataset) =>
              baseline[1] = Norm(CovTimesN2(dataset), VarTimesN2(dataset))
        /\ \A a \in Slopes, b \in Slopes :
              OnLine(dataset, a, b) =>
                  /\ RoundingOf(baseline[1], a, 1)
                  /\ DyadicMeans(dataset) => baseline[1] = Float(a)
        /\ dataset = LinearRows => baseline[1] = Float(2)

C4_Witness ==
    /\ pc = "plotted"
    /\ dataset = LinearRows
    /\ DyadicMeans(dataset)
    /\ OnLine(dataset, 2, 0)
    /\ baseline = << Float(2) >>

(* The sort of the running call has been done. *)
SortDone == calls >= 1 /\ pc \in {"n_rows", "eval", "returned", "raised"}

Count(df, r) == Cardinality({i \in 1 .. Len(df) : df[i] = r})

(* C5: the sequence cumulative_gain slices holds every input row exactly
   once, no row before a row of strictly higher score, so the scores of any
   first k rows are all >= the scores of the rows after them. *)
C5_SortedPermutation ==
    SortDone =>
        /\ Len(ordered_df) = Len(dataset)
        /\ \A i \in 1 .. Len(dataset) :
              Count(ordered_df, dataset[i]) = Count(dataset, dataset[i])
        /\ \A i, j \in 1 .. Len(ordered_df) :
              i < j => ordered_df[i].s >= ordered_df[j].s
        /\ \A n \in 0 .. Len(ordered_df) :
              \A i \in 1 .. n, j \in n + 1 .. Len(ordered_df) :
                  ordered_df[i].s >= ordered_df[j].s

C5_Witness ==
    /\ SortDone
    /\ ordered_df # dataset
    /\ Len(dataset) >= 3
    /\ \E i, j \in 1 .. Len(dataset) :
          i < j /\ dataset[i].s < dataset[j].s
    /\ \E i, j \in 1 .. Len(dataset) :
          i < j /\ dataset[i].s = dataset[j].s /\ tiePref[i] > tiePref[j]

Outcome == [pc |-> pc, result |-> result, err |-> err]

(* C6: a call of cumulative_gain made again with the same unmodified
   dataset and the same arguments ends as the call before it did: the same
   sequence returned, or the same exception raised. *)
C6_SameCallSameCurve ==
    (Finished /\ prev.pc # "none") => Outcome = prev

C6_Witness ==
    /\ calls = 2
    /\ pc = "returned"
    /\ prev.pc = "returned"
    /\ Len(result) >= 2
    /\ result = prev.result
    /\ \E i \in 1 .. Len(result) : ~IsNaN(result[i])

(* C7: no step of cumulative_gain or elast changes the caller's dataset:
   its rows, their order and their values stay as they were. *)
C7_DatasetUnchanged == [][dataset' = dataset]_vars

(* Calls have ended, returning and raising, on a dataset the sort had to
   reorder, and the dataset is still in the caller's order. *)
C7_Witness ==
    /\ calls = 2
    /\ pc = "plotted"
    /\ prev.pc \in {"returned", "raised"}
    /\ ordered_df # << >>
    /\ ordered_df # dataset
    /\ \E i, j \in 1 .. Len(dataset) : i < j /\ dataset[i].s < dataset[j].s

(* C8: in every call that returns a curve the prefix lengths evaluated
   never decrease from one point to the next. *)
C8_PrefixLengthsNonDecreasing ==
    pc = "returned" =>
        \A i, j \in 1 .. Len(n_rows) : i < j => n_rows[i] <= n_rows[j]

(* C9: elast, given a non-empty slice whose treatment values are all
   equal, signals DegenerateTreatmentError and returns no value. *)
C9_DegenerateTreatmentSignalled ==
    (pc = "plotted" /\ Len(dataset) >= 1 /\ ConstantTreatment(dataset)) =>
        /\ baseline = << >>
        /\ err = "DegenerateTreatmentError"

(* steps >= 1 and 1 <= min_periods <= size *)
ValidConfiguration == steps >= 1 /\ min_periods >= 1 /\ min_periods <= size

(* C10: in a call with a valid configuration, once a prefix with constant
   treatment has been evaluated the call neither goes on nor returns: no
   sequence holds an undefined point beside computed ones. *)
C10_DegeneratePrefixEndsCall ==
    (Built /\ ValidConfiguration) =>
        /\ \A i \in 1 .. pos : ~ConstantTreatment(DfHead(ordered_df, n_rows[i]))
        /\ \A i \in 1 .. Len(out) : ~IsNaN(out[i])

(* A call has got past line 192: it built n_rows or raised there. *)
PastLine192 == calls >= 1 /\ pc \in {"eval", "returned", "raised"}

(* C11: every call with steps <= 0 ends in an InvalidConfiguration error
   and builds and returns no curve (stated for 1 <= min_periods <= size,
   so that steps is the only argument at fault). *)
C11_NonPositiveStepsRejected ==
    (PastLine192 /\ steps <= 0 /\ min_periods >= 1 /\ min_periods <= size) =>
        /\ pc = "raised"
        /\ err = "InvalidConfiguration"

(* C12: every call with min_periods <= 0 ends in an InvalidConfiguration
   error and returns no curve; no prefix of 0 rows and no negative prefix
   length is evaluated (stated for 1 <= steps <= size, so that min_periods
   is the only argument at fault). *)
C12_NonPositiveMinPeriodsRejected ==
    (PastLine192 /\ min_periods <= 0 /\ steps >= 1 /\ steps <= size) =>
        /\ pc = "raised"
        /\ err = "InvalidConfiguration"
        /\ \A i \in 1 .. pos : n_rows[i] >= 1

(* C13: with size < min_periods and steps >= 1 the call fails with an
   error or clamps to size: no prefix length above size is built or
   evaluated, and a curve it returns has the single prefix length size. *)
C13_ShortDatasetFailsOrClamps ==
    (PastLine192 /\ size < min_periods /\ steps >= 1) =>
        \/ pc = "raised" /\ err # "none" /\ n_rows = << >> /\ result = << >>
        \/ /\ Built
           /\ n_rows = << size >>
           /\ \A i \in 1 .. Len(n_rows) : n_rows[i] <= size
           /\ pc = "returned" => Len(result) = 1

C13_Witness ==
    /\ pc = "returned"
    /\ steps >= 1
    /\ size < min_periods
    /\ size >= 2
    /\ n_rows = << size >>
    /\ Len(result) = 1
    /\ ~IsNaN(result[1])

(* C14: for size >= 1, steps >= 1 and min_periods >= 1 the call builds a
   non-empty prefix-length sequence ending in size and does not fail while
   building it. *)
C14_OneRowYieldsAPoint ==
    (PastLine192 /\ size >= 1 /\ steps >= 1 /\ min_periods >= 1) =>
        /\ Built
        /\ Len(n_rows) >= 1
        /\ n_rows[Len(n_rows)] = size

(* C15: a call on a dataset of zero rows ends in an EmptyDatasetError for
   every min_periods and steps, and returns no curve. *)
C15_EmptyDatasetRejected ==
    (PastLine192 /\ Len(dataset) = 0) =>
        /\ pc = "raised"
        /\ err = "EmptyDatasetError"

(* The prefix lengths hold the same length at two positions. *)
HasDuplicate(seq) ==
    \E i, j \in 1 .. Len(seq) : i < j /\ seq[i] = seq[j]

(* The stride size // steps does not divide size - min_periods. *)
StrideMisaligned ==
    /\ steps >= 1
    /\ steps <= size
    /\ min_periods >= 1
    /\ min_periods < size
    /\ (size - min_periods) % (size \div steps) # 0

(* C16, as stated: when the stride size // steps does not divide
   size - min_periods, the prefix-length sequence holds a duplicate prefix
   length, the appended size repeating a point already generated. *)
C16_MisalignedStrideDuplicates ==
    (Built /\ StrideMisaligned) => HasDuplicate(n_rows)

(* C16, amended: the prefix-length sequence never holds a duplicate, for any
   arguments: the range stops strictly before size, so the appended size
   repeats nothing.  When the stride does not divide size - min_periods, the
   last gap is (size - min_periods) % stride, shorter than the stride and at
   least 1; one point is computed for each prefix length. *)
C16_NoDuplicatePrefixLength ==
    Built =>
        /\ ~HasDuplicate(n_rows)
        /\ StrideMisaligned =>
              /\ Len(n_rows) >= 2
              /\ n_rows[Len(n_rows)] - n_rows[Len(n_rows) - 1]
                    = (size - min_periods) % (size \div steps)
        /\ pc = "returned" => Len(result) = Len(n_rows)

C16_Witness ==
    /\ pc = "returned"
    /\ StrideMisaligned
    /\ n_rows = << 3, 8, 10 >>
    /\ Len(result) = 3

CeilDiv(a, b) == (a + b - 1) \div b

(* The arguments C17 is about. *)
StepsWithinSize ==
    /\ min_periods >= 1
    /\ min_periods <= size
    /\ steps >= 1
    /\ steps <= size

(* C17, as stated: for 1 <= min_periods <= size and 1 <= steps <= size the
   call returns at most steps + 1 values. *)
C17_AtMostStepsPlusOne ==
    (pc = "returned" /\ StepsWithinSize) => Len(result) <= steps + 1

(* The number of values the code returns for those arguments:
   ceil((size - min_periods) / (size // steps)) + 1, which is at most
   steps + 1 when steps divides size. *)
ReturnedCountFollowsStride ==
    (pc = "returned" /\ StepsWithinSize) =>
        /\ Len(result) = CeilDiv(size - min_periods, size \div steps) + 1
        /\ size % steps = 0 => Len(result) <= steps + 1

(* The arguments C19 is about: steps divides size and min_periods is below
   the stride. *)
StepsDivideSize ==
    /\ steps >= 1
    /\ size % steps = 0
    /\ min_periods >= 1
    /\ min_periods < size \div steps

(* C19: when steps divides size and 1 <= min_periods < size // steps, the
   call returns exactly steps + 1 values, so the last plot index is steps;
   for the notebook's call (50000 rows, min_periods 30, steps 100) that is
   101 prefix lengths, the last at index 100, the x of the end point of the
   baseline of line 250. *)
C19_DividingStepsGiveStepsPlusOne ==
    /\ (pc = "returned" /\ StepsDivideSize) =>
            /\ Len(result) = steps + 1
            /\ Len(n_rows) - 1 = steps
    /\ pc = "plotted" =>
            Len(NRows(DefaultMinPeriods, NotebookTestRows, DefaultSteps)) - 1
                = DefaultSteps

C19_Witness ==
    /\ pc = "returned"
    /\ StepsDivideSize
    /\ size = 10
    /\ steps = 2
    /\ min_periods = 2
    /\ n_rows = << 2, 7, 10 >>
    /\ Len(result) = 3

DistinctScores(df) ==
    \A i, j \in 1 .. Len(df) : i # j => df[i].s # df[j].s

RowOrders(n) ==
    {q \in [1 .. n -> 1 .. n] : \A i, j \in 1 .. n : q[i] = q[j] => i = j}

(* The rows of df in the order q. *)
Permute(df, q) == [i \in 1 .. Len(df) |-> df[q[i]]]

(* The curve lines 190-193 return for df, when line 192 does not raise. *)
CurveOf(df, pref, mp, st) ==
    LET sorted == SortValues(df, pref).ret
        lens == NRows(mp, Len(df), st)
    IN  [i \in 1 .. Len(lens) |-> Point(sorted, lens[i], Len(df))]

(* C20: when the scores of the dataset are pairwise distinct, the curve a
   call returns is the curve of every dataset holding the same rows in
   another order, called with the same arguments, whatever order the sort
   leaves ties in. *)
C20_RowOrderIrrelevant ==
    (pc = "returned" /\ DistinctScores(dataset)) =>
        \A q \in RowOrders(size) :
            \A pref \in TieOrders(Permute(dataset, q)) :
                CurveOf(Permute(dataset, q), pref, min_periods, steps) = result

C20_Witness ==
    /\ pc = "returned"
    /\ DistinctScores(dataset)
    /\ size >= 3
    /\ ordered_df # dataset
    /\ Len(result) >= 3
    /\ \E i, j \in 1 .. Len(result) :
          /\ ~IsNaN(result[i])
          /\ ~IsNaN(result[j])
          /\ result[i] # result[j]

(* The arguments C21 is about. *)
MinPeriodsOne ==
    /\ min_periods = 1
    /\ size >= 2
    /\ steps >= 1
    /\ steps <= size

(* C21: with min_periods = 1, size >= 2 and 1 <= steps <= size, no prefix
   shorter than min_periods is evaluated and the first prefix evaluated is
   a single row, whose treatment has zero variance whatever the data: its
   elast is 0/0, so the first point of the list, and of the returned curve,
   is nan. *)
C21_SingleRowFirstPointDegenerate ==
    (Built /\ MinPeriodsOne) =>
        /\ \A i \in 1 .. Len(n_rows) : n_rows[i] >= min_periods
        /\ n_rows[1] = 1
        /\ Len(DfHead(ordered_df, n_rows[1])) = 1
        /\ VarTimesN2(DfHead(ordered_df, n_rows[1])) = 0
        /\ IsNaN(elast(DfHead(ordered_df, n_rows[1])))
        /\ pos >= 1 => IsNaN(out[1])
        /\ pc = "returned" => IsNaN(result[1])

C21_Witness ==
    /\ pc = "returned"
    /\ MinPeriodsOne
    /\ Len(result) >= 3
    /\ IsNaN(result[1])
    /\ ~IsNaN(result[2])
    /\ ~IsNaN(result[Len(result)])

=============================================================================
